---- MODULE Spec2Model ----
(***************************************************************************)
(* Model of EnumGenerator (packages/plugin/src/code-gen/enum-generator.ts) *)
(* of protobuf-ts: generateEnum, generateTranslationTable, formatEnumName. *)
(*                                                                         *)
(* A JavaScript string is the sequence of its UTF-16 code units, so that    *)
(* case conversion, regular-expression search and concatenation are        *)
(* computed character by character.  An optional value (string | null,     *)
(* string | undefined, a thrown error or none) is a sequence of length 0   *)
(* (absent) or 1 (present).                                                *)
(***************************************************************************)
EXTENDS Integers, Sequences, FiniteSets, TLC

VARIABLES
    input,    \* the enumeration the generator is called with, and its collaborators' behaviour
    todo,     \* the operations the caller has still to invoke for this enumeration
    file0,    \* the statements the output file held at the start
    file,     \* the output file's statements (TypescriptFile)
    log,      \* one record per invocation made so far: what the caller observed
    fmtIn,    \* formatEnumName's argument
    fmtOut    \* formatEnumName's result, once it has run

vars == <<input, todo, file0, file, log, fmtIn, fmtOut>>

(***************************************************************************)
(* Bounds of the model.                                                    *)
(***************************************************************************)
MaxMembers == 2
MaxCatalog == 2
MaxPieces == 4
MaxCalls == 2
MaxNameLen == 4

(***************************************************************************)
(* Characters and strings.  A character is a UTF-16 code unit, a number    *)
(* from 0 to 65535, as charCodeAt gives it: 65 is "A", 95 is "_".  The     *)
(* regular expressions of the source have no u flag and work on code       *)
(* units; toLowerCase works on code points, a surrogate pair being one     *)
(* code point.                                                             *)
(***************************************************************************)

\* "_"
Underscore == 95

\* " "
Space == 32

\* the character class [a-z]
IsLowerLetter(c) == 97 <= c /\ c <= 122

\* A-Z, as in the character class \w
IsUpperLetter(c) == 65 <= c /\ c <= 90

\* 0-9, as in the character class \w
IsDigit(c) == 48 <= c /\ c <= 57

\* the character class \w (no u flag, no i flag): [A-Za-z0-9_]
IsWordChar(c) == IsLowerLetter(c) \/ IsUpperLetter(c) \/ IsDigit(c) \/ c = Underscore

\* the character class \s: U+0009 to U+000D, U+0020, U+00A0, U+1680, U+2000 to
\* U+200A, U+2028, U+2029, U+202F, U+205F, U+3000, U+FEFF
WhitespaceCodeUnits ==
    (9..13) \cup {32, 160, 5760} \cup (8192..8202) \cup {8232, 8233, 8239, 8287, 12288, 65279}

IsWhitespace(c) == c \in WhitespaceCodeUnits

\* U+D800 to U+DBFF
IsHighSurrogate(c) == 55296 <= c /\ c <= 56319

\* U+DC00 to U+DFFF
IsLowSurrogate(c) == 56320 <= c /\ c <= 57343

\* a surrogate pair starts at index i
IsPairAt(s, i) ==
    /\ 1 <= i
    /\ i + 1 <= Len(s)
    /\ IsHighSurrogate(s[i])
    /\ IsLowSurrogate(s[i + 1])

\* the code point that starts at index i: a surrogate pair's, or the code unit itself
codePointAt(s, i) ==
    IF IsPairAt(s, i) THEN 65536 + (s[i] - 55296) * 1024 + (s[i + 1] - 56320) ELSE s[i]

\* the code point that ends at index i
codePointBefore(s, i) == IF IsPairAt(s, i - 1) THEN codePointAt(s, i - 1) ELSE s[i]

\* the code units of a code point
fromCodePoint(cp) ==
    IF cp < 65536 THEN <<cp>>
    ELSE <<55296 + ((cp - 65536) \div 1024), 56320 + ((cp - 65536) % 1024)>>

\* The lower-case mappings of the Unicode character database (version
\* 17.0), without U+0130: <<first, last, step, offset>> stands for the code
\* points first, first + step, ..., last, each of which has the lower-case
\* form at the given offset from it.
ToLowerRanges ==
    { <<65, 90, 1, 32>>, <<192, 214, 1, 32>>, <<216, 222, 1, 32>>, <<256, 302, 2, 1>>,
      <<306, 310, 2, 1>>, <<313, 327, 2, 1>>, <<330, 374, 2, 1>>, <<376, 376, 1, -121>>,
      <<377, 381, 2, 1>>, <<385, 385, 1, 210>>, <<386, 388, 2, 1>>, <<390, 390, 1, 206>>,
      <<391, 391, 1, 1>>, <<393, 394, 1, 205>>, <<395, 395, 1, 1>>, <<398, 398, 1, 79>>,
      <<399, 399, 1, 202>>, <<400, 400, 1, 203>>, <<401, 401, 1, 1>>, <<403, 403, 1, 205>>,
      <<404, 404, 1, 207>>, <<406, 406, 1, 211>>, <<407, 407, 1, 209>>, <<408, 408, 1, 1>>,
      <<412, 412, 1, 211>>, <<413, 413, 1, 213>>, <<415, 415, 1, 214>>, <<416, 420, 2, 1>>,
      <<422, 422, 1, 218>>, <<423, 423, 1, 1>>, <<425, 425, 1, 218>>, <<428, 428, 1, 1>>,
      <<430, 430, 1, 218>>, <<431, 431, 1, 1>>, <<433, 434, 1, 217>>, <<435, 437, 2, 1>>,
      <<439, 439, 1, 219>>, <<440, 440, 1, 1>>, <<444, 444, 1, 1>>, <<452, 452, 1, 2>>,
      <<453, 453, 1, 1>>, <<455, 455, 1, 2>>, <<456, 456, 1, 1>>, <<458, 458, 1, 2>>,
      <<459, 475, 2, 1>>, <<478, 494, 2, 1>>, <<497, 497, 1, 2>>, <<498, 500, 2, 1>>,
      <<502, 502, 1, -97>>, <<503, 503, 1, -56>>, <<504, 542, 2, 1>>, <<544, 544, 1, -130>>,
      <<546, 562, 2, 1>>, <<570, 570, 1, 10795>>, <<571, 571, 1, 1>>, <<573, 573, 1, -163>>,
      <<574, 574, 1, 10792>>, <<577, 577, 1, 1>>, <<579, 579, 1, -195>>, <<580, 580, 1, 69>>,
      <<581, 581, 1, 71>>, <<582, 590, 2, 1>>, <<880, 882, 2, 1>>, <<886, 886, 1, 1>>,
      <<895, 895, 1, 116>>, <<902, 902, 1, 38>>, <<904, 906, 1, 37>>, <<908, 908, 1, 64>>,
      <<910, 911, 1, 63>>, <<913, 929, 1, 32>>, <<931, 939, 1, 32>>, <<975, 975, 1, 8>>,
      <<984, 1006, 2, 1>>, <<1012, 1012, 1, -60>>, <<1015, 1015, 1, 1>>, <<1017, 1017, 1, -7>>,
      <<1018, 1018, 1, 1>>, <<1021, 1023, 1, -130>>, <<1024, 1039, 1, 80>>, <<1040, 1071, 1, 32>>,
      <<1120, 1152, 2, 1>>, <<1162, 1214, 2, 1>>, <<1216, 1216, 1, 15>>, <<1217, 1229, 2, 1>>,
      <<1232, 1326, 2, 1>>, <<1329, 1366, 1, 48>>, <<4256, 4293, 1, 7264>>,
      <<4295, 4295, 1, 7264>>, <<4301, 4301, 1, 7264>>, <<5024, 5103, 1, 38864>>,
      <<5104, 5109, 1, 8>>, <<7305, 7305, 1, 1>>, <<7312, 7354, 1, -3008>>,
      <<7357, 7359, 1, -3008>>, <<7680, 7828, 2, 1>>, <<7838, 7838, 1, -7615>>,
      <<7840, 7934, 2, 1>>, <<7944, 7951, 1, -8>>, <<7960, 7965, 1, -8>>, <<7976, 7983, 1, -8>>,
      <<7992, 7999, 1, -8>>, <<8008, 8013, 1, -8>>, <<8025, 8031, 2, -8>>, <<8040, 8047, 1, -8>>,
      <<8072, 8079, 1, -8>>, <<8088, 8095, 1, -8>>, <<8104, 8111, 1, -8>>, <<8120, 8121, 1, -8>>,
      <<8122, 8123, 1, -74>>, <<8124, 8124, 1, -9>>, <<8136, 8139, 1, -86>>, <<8140, 8140, 1, -9>>,
      <<8152, 8153, 1, -8>>, <<8154, 8155, 1, -100>>, <<8168, 8169, 1, -8>>,
      <<8170, 8171, 1, -112>>, <<8172, 8172, 1, -7>>, <<8184, 8185, 1, -128>>,
      <<8186, 8187, 1, -126>>, <<8188, 8188, 1, -9>>, <<8486, 8486, 1, -7517>>,
      <<8490, 8490, 1, -8383>>, <<8491, 8491, 1, -8262>>, <<8498, 8498, 1, 28>>,
      <<8544, 8559, 1, 16>>, <<8579, 8579, 1, 1>>, <<9398, 9423, 1, 26>>, <<11264, 11311, 1, 48>>,
      <<11360, 11360, 1, 1>>, <<11362, 11362, 1, -10743>>, <<11363, 11363, 1, -3814>>,
      <<11364, 11364, 1, -10727>>, <<11367, 11371, 2, 1>>, <<11373, 11373, 1, -10780>>,
      <<11374, 11374, 1, -10749>>, <<11375, 11375, 1, -10783>>, <<11376, 11376, 1, -10782>>,
      <<11378, 11378, 1, 1>>, <<11381, 11381, 1, 1>>, <<11390, 11391, 1, -10815>>,
      <<11392, 11490, 2, 1>>, <<11499, 11501, 2, 1>>, <<11506, 11506, 1, 1>>,
      <<42560, 42604, 2, 1>>, <<42624, 42650, 2, 1>>, <<42786, 42798, 2, 1>>,
      <<42802, 42862, 2, 1>>, <<42873, 42875, 2, 1>>, <<42877, 42877, 1, -35332>>,
      <<42878, 42886, 2, 1>>, <<42891, 42891, 1, 1>>, <<42893, 42893, 1, -42280>>,
      <<42896, 42898, 2, 1>>, <<42902, 42920, 2, 1>>, <<42922, 42922, 1, -42308>>,
      <<42923, 42923, 1, -42319>>, <<42924, 42924, 1, -42315>>, <<42925, 42925, 1, -42305>>,
      <<42926, 42926, 1, -42308>>, <<42928, 42928, 1, -42258>>, <<42929, 42929, 1, -42282>>,
      <<42930, 42930, 1, -42261>>, <<42931, 42931, 1, 928>>, <<42932, 42946, 2, 1>>,
      <<42948, 42948, 1, -48>>, <<42949, 42949, 1, -42307>>, <<42950, 42950, 1, -35384>>,
      <<42951, 42953, 2, 1>>, <<42955, 42955, 1, -42343>>, <<42956, 42970, 2, 1>>,
      <<42972, 42972, 1, -42561>>, <<42997, 42997, 1, 1>>, <<65313, 65338, 1, 32>>,
      <<66560, 66599, 1, 40>>, <<66736, 66771, 1, 40>>, <<66928, 66938, 1, 39>>,
      <<66940, 66954, 1, 39>>, <<66956, 66962, 1, 39>>, <<66964, 66965, 1, 39>>,
      <<68736, 68786, 1, 64>>, <<68944, 68965, 1, 32>>, <<71840, 71871, 1, 32>>,
      <<93760, 93791, 1, 32>>, <<93856, 93880, 1, 27>>, <<125184, 125217, 1, 34>> }

\* the code points with the property Cased (version 17.0), as <<first, last>>
CasedRanges ==
    { <<65, 90>>, <<97, 122>>, <<170, 170>>, <<181, 181>>, <<186, 186>>, <<192, 214>>,
      <<216, 246>>, <<248, 442>>, <<444, 447>>, <<452, 659>>, <<662, 696>>, <<704, 705>>,
      <<736, 740>>, <<837, 837>>, <<880, 883>>, <<886, 887>>, <<890, 893>>, <<895, 895>>,
      <<902, 902>>, <<904, 906>>, <<908, 908>>, <<910, 929>>, <<931, 1013>>, <<1015, 1153>>,
      <<1162, 1327>>, <<1329, 1366>>, <<1376, 1416>>, <<4256, 4293>>, <<4295, 4295>>,
      <<4301, 4301>>, <<4304, 4346>>, <<4348, 4351>>, <<5024, 5109>>, <<5112, 5117>>,
      <<7296, 7306>>, <<7312, 7354>>, <<7357, 7359>>, <<7424, 7615>>, <<7680, 7957>>,
      <<7960, 7965>>, <<7968, 8005>>, <<8008, 8013>>, <<8016, 8023>>, <<8025, 8025>>,
      <<8027, 8027>>, <<8029, 8029>>, <<8031, 8061>>, <<8064, 8116>>, <<8118, 8124>>,
      <<8126, 8126>>, <<8130, 8132>>, <<8134, 8140>>, <<8144, 8147>>, <<8150, 8155>>,
      <<8160, 8172>>, <<8178, 8180>>, <<8182, 8188>>, <<8305, 8305>>, <<8319, 8319>>,
      <<8336, 8348>>, <<8450, 8450>>, <<8455, 8455>>, <<8458, 8467>>, <<8469, 8469>>,
      <<8473, 8477>>, <<8484, 8484>>, <<8486, 8486>>, <<8488, 8488>>, <<8490, 8493>>,
      <<8495, 8500>>, <<8505, 8505>>, <<8508, 8511>>, <<8517, 8521>>, <<8526, 8526>>,
      <<8544, 8575>>, <<8579, 8580>>, <<9398, 9449>>, <<11264, 11492>>, <<11499, 11502>>,
      <<11506, 11507>>, <<11520, 11557>>, <<11559, 11559>>, <<11565, 11565>>, <<42560, 42605>>,
      <<42624, 42653>>, <<42786, 42887>>, <<42891, 42894>>, <<42896, 42972>>, <<42993, 42998>>,
      <<43000, 43002>>, <<43824, 43866>>, <<43868, 43881>>, <<43888, 43967>>, <<64256, 64262>>,
      <<64275, 64279>>, <<65313, 65338>>, <<65345, 65370>>, <<66560, 66639>>, <<66736, 66771>>,
      <<66776, 66811>>, <<66928, 66938>>, <<66940, 66954>>, <<66956, 66962>>, <<66964, 66965>>,
      <<66967, 66977>>, <<66979, 66993>>, <<66995, 67001>>, <<67003, 67004>>, <<67456, 67456>>,
      <<67459, 67461>>, <<67463, 67504>>, <<67506, 67514>>, <<68736, 68786>>, <<68800, 68850>>,
      <<68944, 68965>>, <<68976, 68997>>, <<71840, 71903>>, <<93760, 93823>>, <<93856, 93880>>,
      <<93883, 93907>>, <<119808, 119892>>, <<119894, 119964>>, <<119966, 119967>>,
      <<119970, 119970>>, <<119973, 119974>>, <<119977, 119980>>, <<119982, 119993>>,
      <<119995, 119995>>, <<119997, 120003>>, <<120005, 120069>>, <<120071, 120074>>,
      <<120077, 120084>>, <<120086, 120092>>, <<120094, 120121>>, <<120123, 120126>>,
      <<120128, 120132>>, <<120134, 120134>>, <<120138, 120144>>, <<120146, 120485>>,
      <<120488, 120512>>, <<120514, 120538>>, <<120540, 120570>>, <<120572, 120596>>,
      <<120598, 120628>>, <<120630, 120654>>, <<120656, 120686>>, <<120688, 120712>>,
      <<120714, 120744>>, <<120746, 120770>>, <<120772, 120779>>, <<122624, 122633>>,
      <<122635, 122654>>, <<122661, 122666>>, <<122928, 122989>>, <<125184, 125251>>,
      <<127280, 127305>>, <<127312, 127337>>, <<127344, 127369>> }

\* the code points with the property Case_Ignorable (version 17.0), as <<first, last>>
CaseIgnorableRanges ==
    { <<39, 39>>, <<46, 46>>, <<58, 58>>, <<94, 94>>, <<96, 96>>, <<168, 168>>, <<173, 173>>,
      <<175, 175>>, <<180, 180>>, <<183, 184>>, <<688, 879>>, <<884, 885>>, <<890, 890>>,
      <<900, 901>>, <<903, 903>>, <<1155, 1161>>, <<1369, 1369>>, <<1375, 1375>>, <<1425, 1469>>,
      <<1471, 1471>>, <<1473, 1474>>, <<1476, 1477>>, <<1479, 1479>>, <<1524, 1524>>,
      <<1536, 1541>>, <<1552, 1562>>, <<1564, 1564>>, <<1600, 1600>>, <<1611, 1631>>,
      <<1648, 1648>>, <<1750, 1757>>, <<1759, 1768>>, <<1770, 1773>>, <<1807, 1807>>,
      <<1809, 1809>>, <<1840, 1866>>, <<1958, 1968>>, <<2027, 2037>>, <<2042, 2042>>,
      <<2045, 2045>>, <<2070, 2093>>, <<2137, 2139>>, <<2184, 2184>>, <<2192, 2193>>,
      <<2199, 2207>>, <<2249, 2306>>, <<2362, 2362>>, <<2364, 2364>>, <<2369, 2376>>,
      <<2381, 2381>>, <<2385, 2391>>, <<2402, 2403>>, <<2417, 2417>>, <<2433, 2433>>,
      <<2492, 2492>>, <<2497, 2500>>, <<2509, 2509>>, <<2530, 2531>>, <<2558, 2558>>,
      <<2561, 2562>>, <<2620, 2620>>, <<2625, 2626>>, <<2631, 2632>>, <<2635, 2637>>,
      <<2641, 2641>>, <<2672, 2673>>, <<2677, 2677>>, <<2689, 2690>>, <<2748, 2748>>,
      <<2753, 2757>>, <<2759, 2760>>, <<2765, 2765>>, <<2786, 2787>>, <<2810, 2815>>,
      <<2817, 2817>>, <<2876, 2876>>, <<2879, 2879>>, <<2881, 2884>>, <<2893, 2893>>,
      <<2901, 2902>>, <<2914, 2915>>, <<2946, 2946>>, <<3008, 3008>>, <<3021, 3021>>,
      <<3072, 3072>>, <<3076, 3076>>, <<3132, 3132>>, <<3134, 3136>>, <<3142, 3144>>,
      <<3146, 3149>>, <<3157, 3158>>, <<3170, 3171>>, <<3201, 3201>>, <<3260, 3260>>,
      <<3263, 3263>>, <<3270, 3270>>, <<3276, 3277>>, <<3298, 3299>>, <<3328, 3329>>,
      <<3387, 3388>>, <<3393, 3396>>, <<3405, 3405>>, <<3426, 3427>>, <<3457, 3457>>,
      <<3530, 3530>>, <<3538, 3540>>, <<3542, 3542>>, <<3633, 3633>>, <<3636, 3642>>,
      <<3654, 3662>>, <<3761, 3761>>, <<3764, 3772>>, <<3782, 3782>>, <<3784, 3790>>,
      <<3864, 3865>>, <<3893, 3893>>, <<3895, 3895>>, <<3897, 3897>>, <<3953, 3966>>,
      <<3968, 3972>>, <<3974, 3975>>, <<3981, 3991>>, <<3993, 4028>>, <<4038, 4038>>,
      <<4141, 4144>>, <<4146, 4151>>, <<4153, 4154>>, <<4157, 4158>>, <<4184, 4185>>,
      <<4190, 4192>>, <<4209, 4212>>, <<4226, 4226>>, <<4229, 4230>>, <<4237, 4237>>,
      <<4253, 4253>>, <<4348, 4348>>, <<4957, 4959>>, <<5906, 5908>>, <<5938, 5939>>,
      <<5970, 5971>>, <<6002, 6003>>, <<6068, 6069>>, <<6071, 6077>>, <<6086, 6086>>,
      <<6089, 6099>>, <<6103, 6103>>, <<6109, 6109>>, <<6155, 6159>>, <<6211, 6211>>,
      <<6277, 6278>>, <<6313, 6313>>, <<6432, 6434>>, <<6439, 6440>>, <<6450, 6450>>,
      <<6457, 6459>>, <<6679, 6680>>, <<6683, 6683>>, <<6742, 6742>>, <<6744, 6750>>,
      <<6752, 6752>>, <<6754, 6754>>, <<6757, 6764>>, <<6771, 6780>>, <<6783, 6783>>,
      <<6823, 6823>>, <<6832, 6877>>, <<6880, 6891>>, <<6912, 6915>>, <<6964, 6964>>,
      <<6966, 6970>>, <<6972, 6972>>, <<6978, 6978>>, <<7019, 7027>>, <<7040, 7041>>,
      <<7074, 7077>>, <<7080, 7081>>, <<7083, 7085>>, <<7142, 7142>>, <<7144, 7145>>,
      <<7149, 7149>>, <<7151, 7153>>, <<7212, 7219>>, <<7222, 7223>>, <<7288, 7293>>,
      <<7376, 7378>>, <<7380, 7392>>, <<7394, 7400>>, <<7405, 7405>>, <<7412, 7412>>,
      <<7416, 7417>>, <<7468, 7530>>, <<7544, 7544>>, <<7579, 7679>>, <<8125, 8125>>,
      <<8127, 8129>>, <<8141, 8143>>, <<8157, 8159>>, <<8173, 8175>>, <<8189, 8190>>,
      <<8203, 8207>>, <<8216, 8217>>, <<8228, 8228>>, <<8231, 8231>>, <<8234, 8238>>,
      <<8288, 8292>>, <<8294, 8303>>, <<8305, 8305>>, <<8319, 8319>>, <<8336, 8348>>,
      <<8400, 8432>>, <<11388, 11389>>, <<11503, 11505>>, <<11631, 11631>>, <<11647, 11647>>,
      <<11744, 11775>>, <<11823, 11823>>, <<12293, 12293>>, <<12330, 12333>>, <<12337, 12341>>,
      <<12347, 12347>>, <<12441, 12446>>, <<12540, 12542>>, <<40981, 40981>>, <<42232, 42237>>,
      <<42508, 42508>>, <<42607, 42610>>, <<42612, 42621>>, <<42623, 42623>>, <<42652, 42655>>,
      <<42736, 42737>>, <<42752, 42785>>, <<42864, 42864>>, <<42888, 42890>>, <<42993, 42996>>,
      <<43000, 43001>>, <<43010, 43010>>, <<43014, 43014>>, <<43019, 43019>>, <<43045, 43046>>,
      <<43052, 43052>>, <<43204, 43205>>, <<43232, 43249>>, <<43263, 43263>>, <<43302, 43309>>,
      <<43335, 43345>>, <<43392, 43394>>, <<43443, 43443>>, <<43446, 43449>>, <<43452, 43453>>,
      <<43471, 43471>>, <<43493, 43494>>, <<43561, 43566>>, <<43569, 43570>>, <<43573, 43574>>,
      <<43587, 43587>>, <<43596, 43596>>, <<43632, 43632>>, <<43644, 43644>>, <<43696, 43696>>,
      <<43698, 43700>>, <<43703, 43704>>, <<43710, 43711>>, <<43713, 43713>>, <<43741, 43741>>,
      <<43756, 43757>>, <<43763, 43764>>, <<43766, 43766>>, <<43867, 43871>>, <<43881, 43883>>,
      <<44005, 44005>>, <<44008, 44008>>, <<44013, 44013>>, <<64286, 64286>>, <<64434, 64450>>,
      <<65024, 65039>>, <<65043, 65043>>, <<65056, 65071>>, <<65106, 65106>>, <<65109, 65109>>,
      <<65279, 65279>>, <<65287, 65287>>, <<65294, 65294>>, <<65306, 65306>>, <<65342, 65342>>,
      <<65344, 65344>>, <<65392, 65392>>, <<65438, 65439>>, <<65507, 65507>>, <<65529, 65531>>,
      <<66045, 66045>>, <<66272, 66272>>, <<66422, 66426>>, <<67456, 67461>>, <<67463, 67504>>,
      <<67506, 67514>>, <<68097, 68099>>, <<68101, 68102>>, <<68108, 68111>>, <<68152, 68154>>,
      <<68159, 68159>>, <<68325, 68326>>, <<68900, 68903>>, <<68942, 68942>>, <<68969, 68973>>,
      <<68975, 68975>>, <<69291, 69292>>, <<69317, 69317>>, <<69370, 69375>>, <<69446, 69456>>,
      <<69506, 69509>>, <<69633, 69633>>, <<69688, 69702>>, <<69744, 69744>>, <<69747, 69748>>,
      <<69759, 69761>>, <<69811, 69814>>, <<69817, 69818>>, <<69821, 69821>>, <<69826, 69826>>,
      <<69837, 69837>>, <<69888, 69890>>, <<69927, 69931>>, <<69933, 69940>>, <<70003, 70003>>,
      <<70016, 70017>>, <<70070, 70078>>, <<70089, 70092>>, <<70095, 70095>>, <<70191, 70193>>,
      <<70196, 70196>>, <<70198, 70199>>, <<70206, 70206>>, <<70209, 70209>>, <<70367, 70367>>,
      <<70371, 70378>>, <<70400, 70401>>, <<70459, 70460>>, <<70464, 70464>>, <<70502, 70508>>,
      <<70512, 70516>>, <<70587, 70592>>, <<70606, 70606>>, <<70608, 70608>>, <<70610, 70610>>,
      <<70625, 70626>>, <<70712, 70719>>, <<70722, 70724>>, <<70726, 70726>>, <<70750, 70750>>,
      <<70835, 70840>>, <<70842, 70842>>, <<70847, 70848>>, <<70850, 70851>>, <<71090, 71093>>,
      <<71100, 71101>>, <<71103, 71104>>, <<71132, 71133>>, <<71219, 71226>>, <<71229, 71229>>,
      <<71231, 71232>>, <<71339, 71339>>, <<71341, 71341>>, <<71344, 71349>>, <<71351, 71351>>,
      <<71453, 71453>>, <<71455, 71455>>, <<71458, 71461>>, <<71463, 71467>>, <<71727, 71735>>,
      <<71737, 71738>>, <<71995, 71996>>, <<71998, 71998>>, <<72003, 72003>>, <<72148, 72151>>,
      <<72154, 72155>>, <<72160, 72160>>, <<72193, 72202>>, <<72243, 72248>>, <<72251, 72254>>,
      <<72263, 72263>>, <<72273, 72278>>, <<72281, 72283>>, <<72330, 72342>>, <<72344, 72345>>,
      <<72544, 72544>>, <<72546, 72548>>, <<72550, 72550>>, <<72752, 72758>>, <<72760, 72765>>,
      <<72767, 72767>>, <<72850, 72871>>, <<72874, 72880>>, <<72882, 72883>>, <<72885, 72886>>,
      <<73009, 73014>>, <<73018, 73018>>, <<73020, 73021>>, <<73023, 73029>>, <<73031, 73031>>,
      <<73104, 73105>>, <<73109, 73109>>, <<73111, 73111>>, <<73177, 73177>>, <<73459, 73460>>,
      <<73472, 73473>>, <<73526, 73530>>, <<73536, 73536>>, <<73538, 73538>>, <<73562, 73562>>,
      <<78896, 78912>>, <<78919, 78933>>, <<90398, 90409>>, <<90413, 90415>>, <<92912, 92916>>,
      <<92976, 92982>>, <<92992, 92995>>, <<93504, 93506>>, <<93547, 93548>>, <<94031, 94031>>,
      <<94095, 94111>>, <<94176, 94177>>, <<94179, 94180>>, <<94194, 94195>>, <<110576, 110579>>,
      <<110581, 110587>>, <<110589, 110590>>, <<113821, 113822>>, <<113824, 113827>>,
      <<118528, 118573>>, <<118576, 118598>>, <<119143, 119145>>, <<119155, 119170>>,
      <<119173, 119179>>, <<119210, 119213>>, <<119362, 119364>>, <<121344, 121398>>,
      <<121403, 121452>>, <<121461, 121461>>, <<121476, 121476>>, <<121499, 121503>>,
      <<121505, 121519>>, <<122880, 122886>>, <<122888, 122904>>, <<122907, 122913>>,
      <<122915, 122916>>, <<122918, 122922>>, <<122928, 122989>>, <<123023, 123023>>,
      <<123184, 123197>>, <<123566, 123566>>, <<123628, 123631>>, <<124139, 124143>>,
      <<124398, 124399>>, <<124643, 124643>>, <<124646, 124646>>, <<124654, 124655>>,
      <<124661, 124661>>, <<124671, 124671>>, <<125136, 125142>>, <<125252, 125259>>,
      <<127995, 127999>>, <<917505, 917505>>, <<917536, 917631>>, <<917760, 917999>> }

IsCased(cp) == \E r \in CasedRanges : r[1] <= cp /\ cp <= r[2]

IsCaseIgnorable(cp) == \E r \in CaseIgnorableRanges : r[1] <= cp /\ cp <= r[2]

\* the lower-case form of a code point that has a single one
lowerCodePoint(cp) ==
    IF IsUpperLetter(cp) THEN cp + 32
    ELSE IF cp < 192 THEN cp
    ELSE LET rows == {r \in ToLowerRanges : r[1] <= cp /\ cp <= r[2] /\ (cp - r[1]) % r[3] = 0}
         IN  IF rows = {} THEN cp ELSE cp + (CHOOSE r \in rows : TRUE)[4]

\* toLowerCase of a code point on its own, as code units: U+0130 gives "i" and
\* U+0307, every other code point its lower-case form or itself
charToLowerCase(cp) ==
    IF cp = 304 THEN <<105, 775>> ELSE fromCodePoint(lowerCodePoint(cp))

\* a cased letter comes before index i + 1, with nothing but case-ignorable code points between
RECURSIVE casedLetterBefore(_, _)
casedLetterBefore(s, i) ==
    IF i < 1 THEN FALSE
    ELSE LET cp == codePointBefore(s, i)
         IN  IF IsCaseIgnorable(cp)
             THEN casedLetterBefore(s, i - Len(fromCodePoint(cp)))
             ELSE IsCased(cp)

\* a cased letter comes from index i on, with nothing but case-ignorable code points before it
RECURSIVE casedLetterAfter(_, _)
casedLetterAfter(s, i) ==
    IF i > Len(s) THEN FALSE
    ELSE LET cp == codePointAt(s, i)
         IN  IF IsCaseIgnorable(cp)
             THEN casedLetterAfter(s, i + Len(fromCodePoint(cp)))
             ELSE IsCased(cp)

\* the capital sigma (U+03A3) at index i ends a word: it gives U+03C2, not U+03C3
isFinalSigma(s, i) ==
    s[i] = 931 /\ casedLetterBefore(s, i - 1) /\ ~casedLetterAfter(s, i + 1)

\* String.prototype.toLowerCase, code point by code point from index i on
RECURSIVE toLowerCaseFrom(_, _)
toLowerCaseFrom(s, i) ==
    IF i > Len(s) THEN <<>>
    ELSE LET cp == codePointAt(s, i)
         IN  (IF isFinalSigma(s, i) THEN <<962>> ELSE charToLowerCase(cp))
                 \o toLowerCaseFrom(s, i + Len(fromCodePoint(cp)))

toLowerCase(s) == toLowerCaseFrom(s, 1)

\* m.toUpperCase() for a match m of /(?:^|\s|_)[a-z]/: a letter a-z, after a white
\* space or an underscore or neither; toUpperCase changes the letter alone
matchToUpperCase(m) ==
    [i \in 1..Len(m) |-> IF IsLowerLetter(m[i]) THEN m[i] - 32 ELSE m[i]]

(***************************************************************************)
(* formatEnumName: name.toLowerCase()                                      *)
(*     .replace(/(?:^|\s|_)[a-z]/g, m => m.toUpperCase())                  *)
(*     .replace(/_/g, ' ')                                                 *)
(***************************************************************************)

\* .replace(/(?:^|\s|_)[a-z]/g, m => m.toUpperCase()) from index i on: the
\* matches are found left to right and do not overlap; at each index the
\* alternatives are tried in order, ^ (only at the start of the string)
\* before a white space or underscore followed by a lower-case letter.
RECURSIVE replaceWordStarts(_, _)
replaceWordStarts(s, i) ==
    IF i > Len(s) THEN <<>>
    ELSE IF i = 1 /\ IsLowerLetter(s[i])
        THEN matchToUpperCase(<<s[i]>>) \o replaceWordStarts(s, i + 1)
    ELSE IF (IsWhitespace(s[i]) \/ s[i] = Underscore) /\ i + 1 <= Len(s) /\ IsLowerLetter(s[i + 1])
        THEN matchToUpperCase(<<s[i], s[i + 1]>>) \o replaceWordStarts(s, i + 2)
    ELSE <<s[i]>> \o replaceWordStarts(s, i + 1)

\* .replace(/_/g, ' ')
replaceUnderscores(s) == [i \in 1..Len(s) |-> IF s[i] = Underscore THEN Space ELSE s[i]]

formatEnumName(name) ==
    replaceUnderscores(replaceWordStarts(toLowerCase(name), 1))

(***************************************************************************)
(* Literals of the source and of the inputs.                               *)
(***************************************************************************)
None == <<>>

Some(x) == <<x>>

\* "@generated synthetic value - protobuf-ts requires all enums to have a 0 value"
SyntheticComment ==
    <<64,103,101,110,101,114,97,116,101,100,32,115,121,110,116,104,101,116,105,99,32,118,97,108,117,101,32,45,32,112,114,111,116,111,98,117,102,45,116,115,32,114,101,113,117,105,114,101,115,32,97,108,108,32,101,110,117,109,115,32,116,111,32,104,97,118,101,32,97,32,48,32,118,97,108,117,101>>

\* "@Translate: ", the literal prefix of /@Translate: (\w+)/
TranslateMarker == <<64,84,114,97,110,115,108,97,116,101,58,32>>

\* "SpectralBot", the right operand of descriptor.name ?? "SpectralBot"
FallbackName == <<83,112,101,99,116,114,97,108,66,111,116>>

\* "Translation", the literal part of `${descriptor.name}Translation`
TranslationSuffix == <<84,114,97,110,115,108,97,116,105,111,110>>

\* "undefined", what a template literal makes of undefined
UndefinedText == <<117,110,100,101,102,105,110,101,100>>

(***************************************************************************)
(* The collaborators: the descriptor, the resolved enum object, the        *)
(* comment accessor, the identifier resolver and the output file.  A       *)
(* collaborator that fails throws its own error object.                    *)
(***************************************************************************)
CatalogError == [site |-> "getEnumInfo", member |-> 0]

CommentError(j) == [site |-> "getCommentBlock", member |-> j]

TypeError == [site |-> "imports.type", member |-> 0]

DocsError == [site |-> "addCommentsForDescriptor", member |-> 0]

\* rt.listEnumValues(this.interpreter.getEnumInfo(descriptor)[1]): the catalog
listEnumValues(in) == in.catalog

\* this.comments.getCommentBlock(evDescriptor, true): the member's leading comment block
getCommentBlock(member) == member.comment

\* this.imports.type(source, descriptor): the identifier the enumeration is declared under
importsType(in) == in.resolved

\* source.addStatement(statement): the statement goes to the end of the file
addStatement(source, statement) == Append(source, statement)

(***************************************************************************)
(* descriptor.value.find(v => v.number === ev.number): the index of the    *)
(* first declared member with that number, 0 when there is none.           *)
(***************************************************************************)
RECURSIVE findFrom(_, _, _)
findFrom(value, number, j) ==
    IF j > Len(value) THEN 0
    ELSE IF value[j].number = number THEN j
    ELSE findFrom(value, number, j + 1)

\* a variant that keeps the last declared member with that number
RECURSIVE findLastFrom(_, _, _)
findLastFrom(value, number, j) ==
    IF j < 1 THEN 0
    ELSE IF value[j].number = number THEN j
    ELSE findLastFrom(value, number, j - 1)

findLast(value, number) == findLastFrom(value, number, Len(value))

find(value, number) == findFrom(value, number, 1)

(***************************************************************************)
(* comments.match(/@Translate: (\w+)/): the first index at which the       *)
(* marker is followed by a word character; the group is the longest run    *)
(* of word characters from there.  The result is match[1], or None for     *)
(* null.                                                                   *)
(***************************************************************************)
RECURSIVE wordRunEnd(_, _)
wordRunEnd(s, i) ==
    IF i + 1 <= Len(s) /\ IsWordChar(s[i + 1]) THEN wordRunEnd(s, i + 1) ELSE i

RECURSIVE matchTranslateFrom(_, _)
matchTranslateFrom(s, p) ==
    LET t == p + Len(TranslateMarker)
    IN  IF t > Len(s) THEN None
        ELSE IF SubSeq(s, p, t - 1) = TranslateMarker /\ IsWordChar(s[t])
            THEN Some(SubSeq(s, t, wordRunEnd(s, t)))
        ELSE matchTranslateFrom(s, p + 1)

\* a variant for /@Translate: (\w*)/: the group may be empty
RECURSIVE matchTranslateLooseFrom(_, _)
matchTranslateLooseFrom(s, p) ==
    LET t == p + Len(TranslateMarker)
    IN  IF t - 1 > Len(s) THEN None
        ELSE IF SubSeq(s, p, t - 1) = TranslateMarker
            THEN Some(IF t <= Len(s) /\ IsWordChar(s[t]) THEN SubSeq(s, t, wordRunEnd(s, t)) ELSE <<>>)
        ELSE matchTranslateLooseFrom(s, p + 1)

matchTranslateLoose(s) == matchTranslateLooseFrom(s, 1)

matchTranslate(s) == matchTranslateFrom(s, 1)

(***************************************************************************)
(* generateEnum(source, descriptor).  The result is the error the caller   *)
(* gets (None when the call returns) and the file's statements afterwards. *)
(***************************************************************************)

\* the body of the loop over the catalog, for one entry: the comment chosen for it
enumComment(in, ev) ==
    LET evDescriptor == find(in.value, ev.number)
    IN  IF evDescriptor # 0
        THEN getCommentBlock(in.value[evDescriptor])
        ELSE SyntheticComment

\* for (let ev of rt.listEnumValues(enumObject)) { ...; builder.add(ev.name, ev.number, comments) }
\* from entry i on, with the builder's values so far; a failing getCommentBlock ends the loop
RECURSIVE enumLoop(_, _, _)
enumLoop(in, i, builder) ==
    IF i > Len(listEnumValues(in)) THEN [thrown |-> None, values |-> builder]
    ELSE LET ev == listEnumValues(in)[i]
             evDescriptor == find(in.value, ev.number)
         IN  IF evDescriptor # 0 /\ evDescriptor \in in.fail.comment
             THEN [thrown |-> Some(CommentError(evDescriptor)), values |-> builder]
             ELSE enumLoop(in, i + 1,
                      Append(builder, [name |-> ev.name, number |-> ev.number,
                                       comment |-> enumComment(in, ev)]))

\* builder.build(this.imports.type(source, descriptor), [export])
enumStatement(in, values) ==
    [kind |-> "EnumDeclaration", modifiers |-> <<"export">>,
     name |-> importsType(in), members |-> values]

\* a variant that adds the statement to the file before the identifier is resolved
generateEnumAddFirst(source, in) ==
    IF in.fail.catalog THEN [thrown |-> Some(CatalogError), source |-> source]
    ELSE LET loop == enumLoop(in, 1, <<>>)
         IN  IF loop.thrown # None
             THEN [thrown |-> loop.thrown, source |-> addStatement(source, enumStatement(in, loop.values))]
             ELSE IF in.fail.type
             THEN [thrown |-> Some(TypeError), source |-> addStatement(source, enumStatement(in, loop.values))]
             ELSE [thrown |-> IF in.fail.docs THEN Some(DocsError) ELSE None,
                   source |-> addStatement(source, enumStatement(in, loop.values))]

\* a variant whose loop passes over the entries that have no declared member
generateEnumSkipSynthetic(source, in) ==
    LET loop == enumLoop(in, 1, <<>>)
    IN  [thrown |-> None,
         source |-> addStatement(source,
             enumStatement(in, SelectSeq(loop.values, LAMBDA m : find(in.value, m.number) # 0)))]

generateEnum(source, in) ==
    IF in.fail.catalog THEN [thrown |-> Some(CatalogError), source |-> source]
    ELSE LET loop == enumLoop(in, 1, <<>>)
         IN  IF loop.thrown # None THEN [thrown |-> loop.thrown, source |-> source]
             ELSE IF in.fail.type THEN [thrown |-> Some(TypeError), source |-> source]
             ELSE [thrown |-> IF in.fail.docs THEN Some(DocsError) ELSE None,
                   source |-> addStatement(source, enumStatement(in, loop.values))]

(***************************************************************************)
(* generateTranslationTable(source, descriptor).                           *)
(***************************************************************************)

\* a variant that humanizes the directive's token as well
translatedNameHumanized(comments, name) ==
    IF comments # None /\ comments[1] # <<>> /\ matchTranslate(comments[1]) # None
    THEN formatEnumName(matchTranslate(comments[1])[1])
    ELSE formatEnumName(name)

\* let translatedName = this.formatEnumName(ev.name);
\* if (comments) { const match = comments.match(...); if (match) translatedName = match[1]; }
translatedName(comments, name) ==
    LET default == formatEnumName(name)
    IN  IF comments # None /\ comments[1] # <<>>
        THEN LET match == matchTranslate(comments[1])
             IN  IF match # None THEN match[1] ELSE default
        ELSE default

\* descriptor.name ?? "SpectralBot"
enumIdentifier(in) == IF in.name = None THEN FallbackName ELSE in.name[1]

\* `${descriptor.name}Translation`
tableIdentifier(in) ==
    (IF in.name = None THEN UndefinedText ELSE in.name[1]) \o TranslationSuffix

\* the loop over the catalog from entry i on, with the translations pushed so far
RECURSIVE translationLoop(_, _, _)
translationLoop(in, i, translations) ==
    IF i > Len(listEnumValues(in)) THEN [thrown |-> None, values |-> translations]
    ELSE LET ev == listEnumValues(in)[i]
             evDescriptor == find(in.value, ev.number)
         IN  IF evDescriptor # 0 /\ evDescriptor \in in.fail.comment
             THEN [thrown |-> Some(CommentError(evDescriptor)), values |-> translations]
             ELSE LET comments == IF evDescriptor # 0
                                  THEN Some(getCommentBlock(in.value[evDescriptor]))
                                  ELSE None
                  IN  translationLoop(in, i + 1,
                          Append(translations,
                              [id |-> [expression |-> enumIdentifier(in), name |-> ev.name],
                               name |-> translatedName(comments, ev.name)]))

\* export const <name>Translation = [ {id: ..., name: ...}, ... ]
translationStatement(in, translations) ==
    [kind |-> "VariableStatement", modifiers |-> <<"export">>, flags |-> "const",
     name |-> tableIdentifier(in), elements |-> translations]

\* a variant that never adds the table to the file
generateTranslationTableNoAdd(source, in) ==
    IF in.fail.catalog THEN [thrown |-> Some(CatalogError), source |-> source]
    ELSE [thrown |-> translationLoop(in, 1, <<>>).thrown, source |-> source]

generateTranslationTable(source, in) ==
    IF in.fail.catalog THEN [thrown |-> Some(CatalogError), source |-> source]
    ELSE LET loop == translationLoop(in, 1, <<>>)
         IN  IF loop.thrown # None THEN [thrown |-> loop.thrown, source |-> source]
             ELSE [thrown |-> None,
                   source |-> addStatement(source, translationStatement(in, loop.values))]

(***************************************************************************)
(* The inputs the model draws from.                                        *)
(***************************************************************************)
\* "A"
NameA == <<65>>

\* "B_C"
NameBC == <<66,95,67>>

\* "ZERO"
NameZero == <<90,69,82,79>>

\* "Status"
StatusName == <<83,116,97,116,117,115>>

\* "Outer_Status"
OuterStatusName == <<79,117,116,101,114,95,83,116,97,116,117,115>>

\* "READY_TO_START"
ReadyToStart == <<82,69,65,68,89,95,84,79,95,83,84,65,82,84>>

\* "@Translate: gT"
DirectiveComment == TranslateMarker \o <<103,84>>

SeqsUpTo(S, n) == UNION {[1..k -> S] : k \in 0..n}

DistinctNames(seq) == \A i, j \in 1..Len(seq) : i # j => seq[i].name # seq[j].name

RECURSIVE Flatten(_)
Flatten(pieces) ==
    IF Len(pieces) = 0 THEN <<>> ELSE Head(pieces) \o Flatten(Tail(pieces))

EnumNames == {NameA, NameBC, NameZero}

Numbers == {0, 1}

\* EnumValueDescriptorProto: name, number, and the leading comment block attached to it
Members == [name : EnumNames, number : Numbers, comment : {<<>>, DirectiveComment}]

\* EnumObjectValue: {name, number}
Entries == [name : EnumNames, number : Numbers]

Values == {v \in SeqsUpTo(Members, MaxMembers) : DistinctNames(v)}

Catalogs == {c \in SeqsUpTo(Entries, MaxCatalog) : Len(c) >= 1 /\ DistinctNames(c)}

\* descriptor.name (optional) and the identifier imports.type resolves the descriptor to
IdentifierCases ==
    { [name |-> None, resolved |-> StatusName],
      [name |-> Some(StatusName), resolved |-> StatusName],
      [name |-> Some(StatusName), resolved |-> OuterStatusName] }

NoFaults == [catalog |-> FALSE, comment |-> {}, type |-> FALSE, docs |-> FALSE]

\* which collaborator calls throw: catalog resolution, getCommentBlock of the
\* listed members, imports.type, addCommentsForDescriptor
Faults == [catalog : BOOLEAN, comment : SUBSET {1}, type : BOOLEAN, docs : BOOLEAN]

\* descriptors and catalogs of every shape, with two kinds of comment
StructureInputs ==
    { [name |-> c.name, resolved |-> c.resolved, value |-> v, catalog |-> cat, fail |-> NoFaults] :
        c \in IdentifierCases, v \in Values, cat \in Catalogs }

\* the pieces comments are put together from: "@Translate: ", "@Translate:",
\* "@translate: ", "gT", "_1", " "
Pieces ==
    { TranslateMarker,
      <<64,84,114,97,110,115,108,97,116,101,58>>,
      <<64,116,114,97,110,115,108,97,116,101,58,32>>,
      <<103,84>>, <<95,49>>, <<32>> }

Comments == {Flatten(ps) : ps \in SeqsUpTo(Pieces, MaxPieces)}

\* one declared member with a comment of every shape
CommentInputs ==
    { [name |-> Some(StatusName), resolved |-> StatusName,
       value |-> <<[name |-> NameA, number |-> 1, comment |-> c]>>,
       catalog |-> cat, fail |-> NoFaults] :
        c \in Comments,
        cat \in { <<[name |-> NameA, number |-> 1]>>,
                  <<[name |-> NameZero, number |-> 0], [name |-> NameA, number |-> 1]>> } }

\* the characters of a protobuf identifier: a capital, a small letter, a digit, the underscore
IdentifierAlphabet == {65, 98, 49, Underscore}

\* the identifiers: not empty, and no digit at the start
IdentifierNames ==
    {n \in SeqsUpTo(IdentifierAlphabet, MaxNameLen) : Len(n) >= 1 /\ ~IsDigit(n[1])}

\* one catalog entry with a name of every shape, and a declared member that
\* the entry's number finds or misses, without a well-formed directive
NameInputs ==
    { [name |-> Some(StatusName), resolved |-> StatusName,
       value |-> <<[name |-> n, number |-> 1, comment |-> c]>>,
       catalog |-> <<[name |-> n, number |-> k]>>, fail |-> NoFaults] :
        n \in IdentifierNames, c \in {<<>>, TranslateMarker}, k \in Numbers }

Inputs == StructureInputs \cup CommentInputs \cup NameInputs

\* two enumerations for one output file, with every combination of failing collaborators
FileDescriptors ==
    { [name |-> Some(StatusName), resolved |-> StatusName,
       value |-> <<[name |-> NameA, number |-> 1, comment |-> DirectiveComment]>>,
       catalog |-> <<[name |-> NameZero, number |-> 0], [name |-> NameA, number |-> 1]>>,
       fail |-> NoFaults],
      [name |-> None, resolved |-> OuterStatusName,
       value |-> <<>>,
       catalog |-> <<[name |-> NameBC, number |-> 0]>>,
       fail |-> NoFaults] }

FileInputs == {[d EXCEPT !.fail = f] : d \in FileDescriptors, f \in Faults}

\* a statement another generator put into the file earlier, named "rt"
ImportStatement == [kind |-> "ImportDeclaration", modifiers |-> <<>>, name |-> <<114,116>>]

\* A, b, 1, underscore, space, and outside the identifier characters: tab,
\* the Ogham space mark (U+1680), U+00C9
FormatAlphabet == {65, 98, 49, Underscore, Space, 9, 5760, 201}

\* names with the other kinds of character: white space (U+000B, U+00A0,
\* U+FEFF) before a letter, capitals outside A-Z (U+0391, U+212A whose
\* lower-case form is "k", U+0130 whose lower-case form is two code units),
\* the capital sigma (U+03A3) alone, at the end of a word, before a
\* case-ignorable full stop and inside a word, a surrogate pair with a
\* lower-case form (U+10400) and a high surrogate on its own
EdgeNames ==
    { <<65, 11, 66>>, <<97, 160, 98>>, <<65279, 97>>,
      <<913, 66>>, <<8490>>, <<304>>, <<304, 66>>,
      <<931>>, <<913, 931>>, <<913, 931, 46>>, <<913, 931, 913>>, <<65, 931, Underscore, 66>>,
      <<55297, 56320>>, <<55297>>, <<55297, 65>> }

FormatInputs == SeqsUpTo(FormatAlphabet, MaxNameLen) \cup {ReadyToStart} \cup EdgeNames

Operations == {"generateEnum", "generateTranslationTable"}

(***************************************************************************)
(* The state machine.  The caller invokes each operation once per          *)
(* enumeration, in either order, one call at a time.                       *)
(***************************************************************************)
Init ==
    /\ input \in Inputs
    /\ todo = Operations
    /\ file0 = <<>>
    /\ file = file0
    /\ log = <<>>
    /\ fmtIn = <<>>
    /\ fmtOut = None

InitFile ==
    /\ input \in FileInputs
    /\ todo = Operations
    /\ file0 \in {<<>>, <<ImportStatement>>}
    /\ file = file0
    /\ log = <<>>
    /\ fmtIn = <<>>
    /\ fmtOut = None

InitFormat ==
    /\ input \in {d \in FileDescriptors : d.name = None}
    /\ todo = {}
    /\ file0 = <<>>
    /\ file = file0
    /\ log = <<>>
    /\ fmtIn \in FormatInputs
    /\ fmtOut = None

CallGenerateEnum ==
    /\ "generateEnum" \in todo
    /\ Len(log) < MaxCalls
    /\ LET result == generateEnum(file, input)
       IN  /\ file' = result.source
           /\ log' = Append(log, [op |-> "generateEnum", thrown |-> result.thrown])
    /\ todo' = todo \ {"generateEnum"}
    /\ UNCHANGED <<input, file0, fmtIn, fmtOut>>

CallGenerateTranslationTable ==
    /\ "generateTranslationTable" \in todo
    /\ Len(log) < MaxCalls
    /\ LET result == generateTranslationTable(file, input)
       IN  /\ file' = result.source
           /\ log' = Append(log, [op |-> "generateTranslationTable", thrown |-> result.thrown])
    /\ todo' = todo \ {"generateTranslationTable"}
    /\ UNCHANGED <<input, file0, fmtIn, fmtOut>>

\* the caller goes on to another enumeration of the same file
SelectDescriptor ==
    /\ Len(log) < MaxCalls
    /\ input' \in FileInputs
    /\ todo' = Operations
    /\ UNCHANGED <<file0, file, log, fmtIn, fmtOut>>

CallFormatEnumName ==
    /\ fmtOut = None
    /\ fmtOut' = Some(formatEnumName(fmtIn))
    /\ UNCHANGED <<input, todo, file0, file, log, fmtIn>>

Next == CallGenerateEnum \/ CallGenerateTranslationTable

NextFile == CallGenerateEnum \/ CallGenerateTranslationTable \/ SelectDescriptor

NextFormat == CallFormatEnumName

Spec == Init /\ [][Next]_vars

SpecFile == InitFile /\ [][NextFile]_vars

SpecFormat == InitFormat /\ [][NextFormat]_vars

(***************************************************************************)
(* Reference notions the properties are stated with.  They are stated      *)
(* declaratively, not by the generator's loops and scans.                  *)
(***************************************************************************)
EnumStatements == {k \in 1..Len(file) : file[k].kind = "EnumDeclaration"}

TableStatements == {k \in 1..Len(file) : file[k].kind = "VariableStatement"}

\* the declared members that carry number n
DeclaredWith(n) == {j \in 1..Len(input.value) : input.value[j].number = n}

\* the first of them in declaration order
FirstDeclared(n) == CHOOSE j \in DeclaredWith(n) : \A k \in DeclaredWith(n) : j <= k

\* a directive is well formed at p: the marker, one space, at least one word character
WellFormedAt(c, p) ==
    /\ p + Len(TranslateMarker) <= Len(c)
    /\ \A k \in 1..Len(TranslateMarker) : c[p + k - 1] = TranslateMarker[k]
    /\ IsWordChar(c[p + Len(TranslateMarker)])

HasDirective(c) == \E p \in 1..Len(c) : WellFormedAt(c, p)

FirstDirective(c) ==
    CHOOSE p \in 1..Len(c) : WellFormedAt(c, p) /\ \A q \in 1..(p - 1) : ~WellFormedAt(c, q)

\* the token of the directive at p: the maximal run of word characters after the marker
TokenAt(c, p) ==
    LET start == p + Len(TranslateMarker)
        last == CHOOSE e \in start..Len(c) :
                    /\ \A k \in start..e : IsWordChar(c[k])
                    /\ e = Len(c) \/ ~IsWordChar(c[e + 1])
    IN  SubSeq(c, start, last)

DirectiveToken(c) == TokenAt(c, FirstDirective(c))

\* the letters among the characters the names are drawn from: A-Z, a-z, and
\* the capital U+00C9 with its small letter U+00E9
IsLetter(c) == c \in (65..90) \cup (97..122) \cup {201, 233}

\* the strings the humanization is stated for: letters, digits, underscore and space
IsLetterText(name) ==
    \A i \in 1..Len(name) :
        IsLetter(name[i]) \/ name[i] \in 48..57 \/ name[i] \in {Underscore, Space}

\* the small letter of a capital
LowerOf(c) == IF c \in 65..90 THEN c + 32 ELSE IF c = 201 THEN 233 ELSE c

\* the capital of a small letter
UpperOf(c) == IF c \in 97..122 THEN c - 32 ELSE IF c = 233 THEN 201 ELSE c

\* Name Humanization, character by character
Humanized(name) ==
    [i \in 1..Len(name) |->
        IF name[i] = Underscore THEN Space
        ELSE IF i = 1 \/ name[i - 1] \in {Space, Underscore} THEN UpperOf(LowerOf(name[i]))
        ELSE LowerOf(name[i])]

\* "Ready To Start"
ReadyToStartLabel == <<82,101,97,100,121,32,84,111,32,83,116,97,114,116>>

\* every invocation so far returned, and put its statement where its turn is
EachCallEmitted ==
    /\ Len(file) = Len(log)
    /\ \A j \in 1..Len(log) :
        /\ log[j].thrown = None
        /\ file[j].kind = (IF log[j].op = "generateEnum" THEN "EnumDeclaration" ELSE "VariableStatement")

(***************************************************************************)
(* C1.  Every catalog entry gives exactly one declaration member and       *)
(* exactly one translation entry: both outputs have the catalog's length,  *)
(* the i-th member carries the i-th entry's name and number, and the i-th  *)
(* translation entry references the i-th entry's name.                     *)
(***************************************************************************)
C1_OneOutputPerEntry ==
    /\ EachCallEmitted
    /\ \A k \in EnumStatements :
        /\ Len(file[k].members) = Len(input.catalog)
        /\ \A i \in 1..Len(input.catalog) :
            /\ file[k].members[i].name = input.catalog[i].name
            /\ file[k].members[i].number = input.catalog[i].number
    /\ \A k \in TableStatements :
        /\ Len(file[k].elements) = Len(input.catalog)
        /\ \A i \in 1..Len(input.catalog) :
            file[k].elements[i].id.name = input.catalog[i].name

\* both outputs exist for a catalog of two entries, one of them without a declared member
C1_Witness ==
    /\ EnumStatements # {}
    /\ TableStatements # {}
    /\ Len(input.catalog) = 2
    /\ \E i \in 1..2 : DeclaredWith(input.catalog[i].number) = {}
    /\ \E i \in 1..2 : DeclaredWith(input.catalog[i].number) # {}

(***************************************************************************)
(* C2.  generateEnum chooses each member's comment by number: the leading  *)
(* comment of the first declared member with the entry's number, verbatim  *)
(* (an empty one included), and the synthetic-value notice when no         *)
(* declared member has that number.                                        *)
(***************************************************************************)
C2_CommentByNumber ==
    \A k \in EnumStatements :
        /\ Len(file[k].members) = Len(input.catalog)
        /\ \A i \in 1..Len(input.catalog) :
            LET n == input.catalog[i].number
            IN  file[k].members[i].comment =
                    (IF DeclaredWith(n) = {} THEN SyntheticComment
                     ELSE input.value[FirstDeclared(n)].comment)

\* a declaration for a catalog with an entry whose number two declared members with
\* different comments share, the first one's comment being empty
C2_Witness ==
    /\ EnumStatements # {}
    /\ \E i \in 1..Len(input.catalog) :
        LET n == input.catalog[i].number
        IN  /\ Cardinality(DeclaredWith(n)) = 2
            /\ input.value[FirstDeclared(n)].comment = <<>>
            /\ \E j \in DeclaredWith(n) : input.value[j].comment # <<>>
    /\ \E i \in 1..Len(input.catalog) : DeclaredWith(input.catalog[i].number) = {}

(***************************************************************************)
(* C3.  When the comment looked up for a catalog entry holds a well-formed *)
(* directive, the entry's label is the token of the first one, verbatim.   *)
(***************************************************************************)
C3_DirectiveLabel ==
    \A k \in TableStatements :
        /\ Len(file[k].elements) = Len(input.catalog)
        /\ \A i \in 1..Len(input.catalog) :
            LET n == input.catalog[i].number
            IN  (DeclaredWith(n) # {} /\ HasDirective(input.value[FirstDeclared(n)].comment))
                => file[k].elements[i].name = DirectiveToken(input.value[FirstDeclared(n)].comment)

\* a table for a comment with two directives of different tokens, the first
\* token unlike its own humanization
C3_Witness ==
    /\ TableStatements # {}
    /\ \E i \in 1..Len(input.catalog) :
        LET n == input.catalog[i].number
            c == input.value[FirstDeclared(n)].comment
        IN  /\ DeclaredWith(n) # {}
            /\ \E p, q \in 1..Len(c) :
                /\ p < q
                /\ WellFormedAt(c, p)
                /\ WellFormedAt(c, q)
                /\ TokenAt(c, p) # TokenAt(c, q)
                /\ TokenAt(c, p) # Humanized(TokenAt(c, p))

(***************************************************************************)
(* C4.  A declared member whose own leading comment holds a directive      *)
(* `@Translate: T` gets label T in the translation entry emitted for it    *)
(* (the entry with its name and number), also when numbers repeat.  It is  *)
(* stated for the catalogs that list every declared member.                *)
(***************************************************************************)
C4_OwnDirectiveLabel ==
    \A k \in TableStatements :
        \A j \in 1..Len(input.value) :
          (\A m \in 1..Len(input.value) : \E e \in 1..Len(input.catalog) :
                /\ input.catalog[e].name = input.value[m].name
                /\ input.catalog[e].number = input.value[m].number)
          =>
            \A i \in 1..Len(input.catalog) :
                ( /\ i <= Len(file[k].elements)
                  /\ HasDirective(input.value[j].comment)
                  /\ input.catalog[i].name = input.value[j].name
                  /\ input.catalog[i].number = input.value[j].number )
                => file[k].elements[i].name = DirectiveToken(input.value[j].comment)

(***************************************************************************)
(* C5.  When no well-formed directive is available for a catalog entry     *)
(* (no declared member, an empty comment, no marker, a malformed marker),  *)
(* the label is the humanization of the entry's name, it is not empty for  *)
(* a non-empty name, and the generation returns.                           *)
(***************************************************************************)
C5_DefaultLabel ==
    /\ EachCallEmitted
    /\ \A k \in TableStatements :
        /\ Len(file[k].elements) = Len(input.catalog)
        /\ \A i \in 1..Len(input.catalog) :
            LET n == input.catalog[i].number
            IN  (DeclaredWith(n) = {} \/ ~HasDirective(input.value[FirstDeclared(n)].comment))
                => /\ file[k].elements[i].name = Humanized(input.catalog[i].name)
                   /\ Len(input.catalog[i].name) > 0 => file[k].elements[i].name # <<>>

\* a table for an entry without a declared member and an entry whose comment is
\* the marker and its space, with no token behind
C5_Witness ==
    /\ TableStatements # {}
    /\ \E i \in 1..Len(input.catalog) : DeclaredWith(input.catalog[i].number) = {}
    /\ \E i \in 1..Len(input.catalog) :
        LET n == input.catalog[i].number
        IN  /\ DeclaredWith(n) # {}
            /\ input.value[FirstDeclared(n)].comment = TranslateMarker

(***************************************************************************)
(* C6.  formatEnumName is the reference transform on every string over     *)
(* letters, digits, underscore and space: lower-case all, upper-case the   *)
(* letter at the string start and after every space or underscore,         *)
(* underscores to spaces.  "READY_TO_START" gives "Ready To Start", ""     *)
(* gives "" and "A" gives "A".  The letter of a run is the character the   *)
(* run starts with; a run that starts with a digit is left as it is.       *)
(***************************************************************************)
C6_FormatEnumName ==
    (fmtOut # None /\ IsLetterText(fmtIn)) =>
        /\ fmtOut[1] = Humanized(fmtIn)
        /\ fmtIn = ReadyToStart => fmtOut[1] = ReadyToStartLabel
        /\ fmtIn = <<>> => fmtOut[1] = <<>>
        /\ fmtIn = NameA => fmtOut[1] = NameA

(***************************************************************************)
(* C7.  With the descriptor's name absent the table's variable is named    *)
(* from the fallback literal that also qualifies the member references;    *)
(* with the name present the variable is <name>Translation and every       *)
(* reference is qualified by <name>.                                       *)
(***************************************************************************)
C7_FallbackTableName ==
    \A k \in TableStatements :
        LET enumName == IF input.name = None THEN FallbackName ELSE input.name[1]
        IN  /\ file[k].name = enumName \o TranslationSuffix
            /\ \A i \in 1..Len(file[k].elements) : file[k].elements[i].id.expression = enumName

(***************************************************************************)
(* C8.  Every translation entry's id is qualified by the identifier the    *)
(* identifier resolver returns for the descriptor, under which             *)
(* generateEnum declares the enumeration.                                  *)
(***************************************************************************)
C8_IdIsResolvedIdentifier ==
    /\ \A k \in EnumStatements : file[k].name = input.resolved
    /\ \A k \in TableStatements :
        \A i \in 1..Len(file[k].elements) : file[k].elements[i].id.expression = input.resolved

(***************************************************************************)
(* C9.  After any sequence of invocations that all returned, the file is   *)
(* its initial list followed by one statement per invocation in invocation *)
(* order, an exported enum declaration or an exported const table; an      *)
(* invocation that returns appends exactly one statement, made from the    *)
(* enumeration it was called with, and no step removes, replaces or        *)
(* reorders a statement the file already holds.                            *)
(***************************************************************************)
AllReturned == \A j \in 1..Len(log) : log[j].thrown = None

C9_FileIsLog ==
    AllReturned =>
        /\ Len(file) = Len(file0) + Len(log)
        /\ SubSeq(file, 1, Len(file0)) = file0
        /\ \A j \in 1..Len(log) :
            LET statement == file[Len(file0) + j]
            IN  /\ statement.modifiers = <<"export">>
                /\ log[j].op = "generateEnum" => statement.kind = "EnumDeclaration"
                /\ log[j].op = "generateTranslationTable" =>
                    statement.kind = "VariableStatement" /\ statement.flags = "const"

C9_AppendStep ==
    /\ Len(file') >= Len(file)
    /\ SubSeq(file', 1, Len(file)) = file
    /\ (Len(log') = Len(log) + 1 /\ log'[Len(log')].thrown = None) =>
        /\ Len(file') = Len(file) + 1
        /\ log'[Len(log')].op = "generateEnum" =>
            /\ file'[Len(file')].kind = "EnumDeclaration"
            /\ Len(file'[Len(file')].members) = Len(input.catalog)
        /\ log'[Len(log')].op = "generateTranslationTable" =>
            /\ file'[Len(file')].kind = "VariableStatement"
            /\ Len(file'[Len(file')].elements) = Len(input.catalog)

\* C9: at every moment the file is its initial list followed by one statement per
\* returned invocation in invocation order, and every step only appends
C9_AppendInOrder == []C9_FileIsLog /\ [][C9_AppendStep]_vars

\* a file that held a statement at the start, then a table of one enumeration and
\* the declaration of another
C9_Witness ==
    /\ AllReturned
    /\ Len(log) = 2
    /\ file0 = <<ImportStatement>>
    /\ Len(file) = 3
    /\ file[2].kind = "VariableStatement"
    /\ file[3].kind = "EnumDeclaration"
    /\ Len(file[2].elements) # Len(file[3].members)

(***************************************************************************)
(* C10.  When catalog resolution, a member's getCommentBlock or            *)
(* imports.type fails during an invocation, the caller gets that very      *)
(* error and the file's statement list is as it was before the call.       *)
(***************************************************************************)

\* the catalog entries whose declared member's comment cannot be extracted
FailingEntries ==
    {i \in 1..Len(input.catalog) :
        /\ DeclaredWith(input.catalog[i].number) # {}
        /\ FirstDeclared(input.catalog[i].number) \in input.fail.comment}

FirstFailingEntry == CHOOSE i \in FailingEntries : \A k \in FailingEntries : i <= k

C10_FailureStep ==
    Len(log') = Len(log) + 1 =>
        LET call == log'[Len(log')]
        IN  /\ input.fail.catalog =>
                call.thrown = Some(CatalogError) /\ file' = file
            /\ (~input.fail.catalog /\ FailingEntries # {}) =>
                /\ call.thrown =
                       Some(CommentError(FirstDeclared(input.catalog[FirstFailingEntry].number)))
                /\ file' = file
            /\ ( /\ ~input.fail.catalog
                 /\ FailingEntries = {}
                 /\ input.fail.type
                 /\ call.op = "generateEnum" ) =>
                call.thrown = Some(TypeError) /\ file' = file

\* C10: every invocation during which a covered collaborator fails hands that very
\* error to the caller and leaves the file as it was
C10_FailurePropagates == [][C10_FailureStep]_vars

\* the caller has seen a failed identifier resolution and a failed comment
\* extraction, and the file is as it started
C10_Witness ==
    /\ file0 = <<ImportStatement>>
    /\ file = file0
    /\ \E j \in 1..Len(log) : log[j].thrown = Some(TypeError)
    /\ \E j \in 1..Len(log) : log[j].thrown = Some(CommentError(1))

====
